---- MODULE Spec2Model ----
(***************************************************************************)
(* Model of trading_bot.py: SimpleMovingAverageBot, a run-once moving      *)
(* average crossover bot against a brokerage paper-trading REST API.       *)
(*                                                                         *)
(* The brokerage is the environment: every API call (get_clock, get_bars,  *)
(* list_positions, submit_order, get_account) either raises or answers,    *)
(* chosen nondeterministically.  Every call the bot makes is appended to   *)
(* `calls` with what the brokerage answered, every log line the properties *)
(* need is appended to `log`.  The account's real position is `held`; the  *)
(* orders a run had accepted are filled before the next run starts.        *)
(***************************************************************************)
EXTENDS Integers, Sequences, FiniteSets

VARIABLES
    run,          \* number of the current invocation of run_strategy
    held,         \* the account's actual signed position in `symbol`
    pc,           \* position of run_strategy
    calls,        \* brokerage API calls of this run, in order, with their answers
    log,          \* log lines of this run, in order
    data,         \* run_strategy's `data` (result of get_market_data)
    sig,          \* run_strategy's (signal, position_change, current_price)
    current_qty   \* run_strategy's `current_qty`

vars == <<run, held, pc, calls, log, data, sig, current_qty>>

----------------------------------------------------------------------------
(* Program constants *)

short_window == 5
long_window == 20
position_size == 10
StaleDays == 30
MinuteDays == 5
DailyDays == 60
HistoricalShift == 90
HistoricalSpan == 60
symbol == "SPY"

(* Bounds of the model *)

MaxRuns == 2      \* invocations of run_strategy in one behaviour
MaxQty == 2       \* initial positions are -MaxQty .. MaxQty
MaxLen == 21      \* longest bar series the brokerage returns
MaxPrice == 3     \* closing prices are 1 .. MaxPrice

----------------------------------------------------------------------------
(* Helpers *)

Abs(x) == IF x < 0 THEN -x ELSE x

None == [some |-> FALSE, closes |-> <<>>, age |-> 0]
NoSignal == [some |-> FALSE, signal |-> 0, position |-> 0, price |-> 0]

Call(op, tier, n, side, qty, res) ==
    [op |-> op, tier |-> tier, n |-> n, side |-> side, qty |-> qty, res |-> res]

----------------------------------------------------------------------------
(* Bar series the brokerage can answer with.  A series is n closes: flat at *)
(* price a, then the last two bars at prices b and c.  Ages are whole days  *)
(* between now and the last bar, inside the window the tier requests.       *)

Series(n, a, b, c) ==
    [j \in 1..n |-> IF j <= n - 2 THEN a ELSE IF j = n - 1 THEN b ELSE c]

Lens == {0} \cup ((long_window - 1)..MaxLen)

CloseSeries ==
    {Series(n, a, b, c) :
        n \in Lens, a \in 1..MaxPrice, b \in 1..MaxPrice, c \in 1..MaxPrice}

AgeSamples == {0, StaleDays, StaleDays + 1, HistoricalShift}

TierAges(tier) ==
    IF tier = 1 THEN {g \in AgeSamples : g <= MinuteDays}
    ELSE IF tier = 2 THEN {g \in AgeSamples : g <= DailyDays}
    ELSE {g \in AgeSamples : g >= HistoricalShift /\ g <= HistoricalShift + HistoricalSpan}

\* What one get_bars call can do: raise, or return a frame of bars (possibly
\* empty).  The text of the exception only selects the wording of the
\* warning that is logged, so one kind of exception is kept.
Responses(tier) ==
    {[kind |-> "raise", closes |-> <<>>, age |-> 0]}
    \cup {[kind |-> "bars", closes |-> s, age |-> g] : s \in CloseSeries, g \in TierAges(tier)}

----------------------------------------------------------------------------
(* get_market_data *)

Bars(r) == [some |-> TRUE, closes |-> r.closes, age |-> r.age]

BarsCall(tier, r) ==
    IF r.kind = "bars"
    THEN Call("get_bars", tier, Len(r.closes), "", 0, "ok")
    ELSE Call("get_bars", tier, -1, "", 0, "raise")

\* Variant of Sufficient: the length test is strict (len(bars) > long_window).
SufficientStrict(r) ==
    r.kind = "bars" /\ Len(r.closes) # 0 /\ Len(r.closes) > long_window

\* `not bars.empty and len(bars) >= self.long_window` of the two recent tiers
Sufficient(r) ==
    r.kind = "bars" /\ Len(r.closes) # 0 /\ Len(r.closes) >= long_window

\* the warning a recent tier logs when it does not return
FallbackLog(tier, r) ==
    IF r.kind = "bars" THEN <<"insufficient", tier>> ELSE <<"unavailable", tier>>

\* the older-daily tier: an empty frame or an exception gives None
Historical(r) ==
    IF r.kind # "bars" THEN [ret |-> None, log |-> <<"fetch_error", 3>>]
    ELSE IF Len(r.closes) = 0 THEN [ret |-> None, log |-> <<"no_historical", 3>>]
    ELSE [ret |-> Bars(r), log |-> <<"retrieved", 3>>]

Fetched(c, l, ret) ==
    /\ calls' = Append(calls, c)
    /\ log' = Append(log, l)
    /\ data' = ret
    /\ pc' = IF ret.some THEN "signals" ELSE "done"
    /\ UNCHANGED <<run, held, sig, current_qty>>

FellBack(c, l, next) ==
    /\ calls' = Append(calls, c)
    /\ log' = Append(log, l)
    /\ pc' = next
    /\ UNCHANGED <<run, held, data, sig, current_qty>>

\* first tier: minute bars of the last MinuteDays days
FetchMinute ==
    /\ pc = "fetch"
    /\ \E r \in Responses(1) :
         IF Sufficient(r)
         THEN Fetched(BarsCall(1, r), <<"retrieved", 1>>, Bars(r))
         ELSE FellBack(BarsCall(1, r), FallbackLog(1, r), "fetch_daily")

\* second tier: daily bars of the last DailyDays days
FetchDaily ==
    /\ pc = "fetch_daily"
    /\ \E r \in Responses(2) :
         IF Sufficient(r)
         THEN Fetched(BarsCall(2, r), <<"retrieved", 2>>, Bars(r))
         ELSE FellBack(BarsCall(2, r), FallbackLog(2, r), "fetch_historical")

\* third tier: daily bars of the HistoricalSpan days ending HistoricalShift days ago
FetchHistorical ==
    /\ pc = "fetch_historical"
    /\ \E r \in Responses(3) :
         Fetched(BarsCall(3, r), Historical(r).log, Historical(r).ret)

----------------------------------------------------------------------------
(* calculate_signals.  Indices are 1-based here: bar j is data.iloc[j-1].   *)
(* A rolling mean is kept exact as mean * Scale; it is NaN (undefined)      *)
(* until its window has filled, and a comparison with NaN is false.         *)

Scale == short_window * long_window

RECURSIVE SumCloses(_, _, _)
SumCloses(closes, from, to) ==
    IF from > to THEN 0 ELSE closes[to] + SumCloses(closes, from, to - 1)

\* data['close'].rolling(window=w).mean() at bar j
rolling_mean(closes, w, j) ==
    IF j < w THEN [defined |-> FALSE, val |-> 0]
    ELSE [defined |-> TRUE, val |-> (SumCloses(closes, j - w + 1, j) * Scale) \div w]

short_ma(closes, j) == rolling_mean(closes, short_window, j)
long_ma(closes, j) == rolling_mean(closes, long_window, j)

GreaterThan(x, y) == x.defined /\ y.defined /\ x.val > y.val

\* data['signal']: 0 for the first short_window bars, then np.where(short > long, 1, -1)
signal(closes, j) ==
    IF j <= short_window THEN 0
    ELSE IF GreaterThan(short_ma(closes, j), long_ma(closes, j)) THEN 1 ELSE -1

\* data['position'] = data['signal'].diff(), at a bar j >= 2
position(closes, j) == signal(closes, j) - signal(closes, j - 1)

calculate_signals(d) ==
    IF ~d.some \/ Len(d.closes) < long_window THEN NoSignal
    ELSE LET n == Len(d.closes) IN
         [some |-> TRUE,
          signal |-> signal(d.closes, n),
          position |-> position(d.closes, n),
          price |-> d.closes[n]]

days_old(d) == d.age

\* Variant of IsStale: data exactly StaleDays old already counts as stale.
IsStaleInclusive(d) == days_old(d) >= StaleDays

IsStale(d) == days_old(d) > StaleDays

CalculateSignals ==
    /\ pc = "signals"
    /\ sig' = calculate_signals(data)
    /\ log' = log \o (IF ~calculate_signals(data).some THEN <<<<"insufficient_data", 0>>>>
                      ELSE IF IsStale(data) THEN <<<<"historical_note", days_old(data)>>>>
                      ELSE <<>>)
    /\ pc' = IF calculate_signals(data).some THEN "position" ELSE "done"
    /\ UNCHANGED <<run, held, calls, data, current_qty>>

----------------------------------------------------------------------------
(* is_market_open, get_current_position, place_order *)

\* Variant of IsMarketOpen: a failed clock query counts as an open market.
IsMarketOpenOnError ==
    /\ pc = "start"
    /\ \E res \in {"open", "closed", "raise"} :
         /\ calls' = Append(calls, Call("get_clock", 0, 0, "", 0, res))
         /\ log' = log \o (IF res = "raise" THEN <<<<"clock_error", 0>>>>
                           ELSE IF res = "closed" THEN <<<<"market_closed", 0>>>>
                           ELSE <<>>)
         /\ pc' = IF res # "closed" THEN "fetch" ELSE "done"
    /\ UNCHANGED <<run, held, data, sig, current_qty>>

\* get_clock answers open or closed, or raises (then the market counts as closed)
IsMarketOpen ==
    /\ pc = "start"
    /\ \E res \in {"open", "closed", "raise"} :
         /\ calls' = Append(calls, Call("get_clock", 0, 0, "", 0, res))
         /\ log' = log \o (IF res = "raise" THEN <<<<"clock_error", 0>>, <<"market_closed", 0>>>>
                           ELSE IF res = "closed" THEN <<<<"market_closed", 0>>>>
                           ELSE <<>>)
         /\ pc' = IF res = "open" THEN "fetch" ELSE "done"
    /\ UNCHANGED <<run, held, data, sig, current_qty>>

\* what list_positions answers: the account's positions, the one in `symbol`
\* (when it is not flat) after any position in another symbol
Positions(h, other) ==
    (IF other THEN <<[symbol |-> "QQQ", qty |-> MaxQty + 1]>> ELSE <<>>)
    \o (IF h # 0 THEN <<[symbol |-> symbol, qty |-> h]>> ELSE <<>>)

RECURSIVE FindQty(_, _)
FindQty(positions, i) ==
    IF i > Len(positions) THEN 0
    ELSE IF positions[i].symbol = symbol THEN positions[i].qty
    ELSE FindQty(positions, i + 1)

\* the value get_current_position returns; a failed query reports 0
get_current_position(ok, positions) ==
    IF ok THEN FindQty(positions, 1) ELSE 0

GetCurrentPosition ==
    /\ pc = "position"
    /\ \E ok \in BOOLEAN, other \in BOOLEAN :
         /\ current_qty' = get_current_position(ok, Positions(held, other))
         /\ calls' = Append(calls, Call("list_positions", 0, 0, "", 0,
                                        IF ok THEN "ok" ELSE "raise"))
         /\ log' = log \o (IF ok THEN <<>> ELSE <<<<"position_error", 0>>>>)
                       \o <<<<"current_position",
                              get_current_position(ok, Positions(held, other))>>>>
    /\ pc' = "trade"
    /\ UNCHANGED <<run, held, data, sig>>

\* place_order on the run's trace st = [calls, log]; ok is whether
\* submit_order answered (otherwise it raised and place_order returns None)
place_order(st, side, qty, ok) ==
    [calls |-> Append(st.calls, Call("submit_order", 0, 0, side, qty,
                                     IF ok THEN "ok" ELSE "raise")),
     log |-> Append(st.log, IF ok THEN <<"order_placed", qty>> ELSE <<"order_error", qty>>)]

Logged(st, line) == [calls |-> st.calls, log |-> Append(st.log, line)]

----------------------------------------------------------------------------
(* run_strategy: the trading branch and the account status *)

Traded(st) ==
    /\ calls' = st.calls
    /\ log' = st.log
    /\ pc' = "account"
    /\ UNCHANGED <<run, held, data, sig, current_qty>>

Trace == [calls |-> calls, log |-> log]

\* days_old > 30: no trading
SkipStale ==
    /\ pc = "trade"
    /\ IsStale(data)
    /\ Traded(Logged(Trace, <<"skipping_trading", days_old(data)>>))

\* Variant of BuySignal: the short position is not closed before going long.
BuySignalNoFlatten ==
    /\ pc = "trade"
    /\ ~IsStale(data)
    /\ sig.position = 2
    /\ IF current_qty <= 0
       THEN \E ok2 \in BOOLEAN :
              Traded(Logged(place_order(Trace, "buy", position_size, ok2),
                            <<"buy_executed", 0>>))
       ELSE Traded(Trace)

\* Variant of BuySignal: the closing order is placed for a flat position too.
BuySignalFlattenFlat ==
    /\ pc = "trade"
    /\ ~IsStale(data)
    /\ sig.position = 2
    /\ IF current_qty <= 0
       THEN \E ok1 \in BOOLEAN, ok2 \in BOOLEAN :
              LET closed == place_order(Trace, "buy", Abs(current_qty), ok1)
                  opened == place_order(closed, "buy", position_size, ok2)
              IN  Traded(Logged(opened, <<"buy_executed", 0>>))
       ELSE Traded(Trace)

\* Variant of BuySignal: place_order lets the exception of submit_order
\* through, which ends the run at the failed order.
BuySignalRaising ==
    /\ pc = "trade"
    /\ ~IsStale(data)
    /\ sig.position = 2
    /\ IF current_qty <= 0
       THEN \E ok1 \in BOOLEAN, ok2 \in BOOLEAN :
              LET closed == IF current_qty < 0
                            THEN place_order(Trace, "buy", Abs(current_qty), ok1)
                            ELSE Trace
                  opened == place_order(closed, "buy", position_size, ok2)
              IN  IF current_qty < 0 /\ ~ok1
                  THEN /\ calls' = closed.calls
                       /\ log' = closed.log
                       /\ pc' = "done"
                       /\ UNCHANGED <<run, held, data, sig, current_qty>>
                  ELSE IF ~ok2
                  THEN /\ calls' = opened.calls
                       /\ log' = opened.log
                       /\ pc' = "done"
                       /\ UNCHANGED <<run, held, data, sig, current_qty>>
                  ELSE Traded(Logged(opened, <<"buy_executed", 0>>))
       ELSE Traded(Trace)

\* position_change == 2
BuySignal ==
    /\ pc = "trade"
    /\ ~IsStale(data)
    /\ sig.position = 2
    /\ IF current_qty <= 0
       THEN \E ok1 \in BOOLEAN, ok2 \in BOOLEAN :
              LET closed == IF current_qty < 0
                            THEN place_order(Trace, "buy", Abs(current_qty), ok1)
                            ELSE Trace
                  opened == place_order(closed, "buy", position_size, ok2)
              IN  Traded(Logged(opened, <<"buy_executed", 0>>))
       ELSE Traded(Trace)

\* Variant of SellSignal: after closing the long position a short one is opened.
SellSignalShort ==
    /\ pc = "trade"
    /\ ~IsStale(data)
    /\ sig.position = -2
    /\ IF current_qty >= 0
       THEN \E ok1 \in BOOLEAN, ok2 \in BOOLEAN :
              LET closed == IF current_qty > 0
                            THEN place_order(Trace, "sell", current_qty, ok1)
                            ELSE Trace
                  opened == place_order(closed, "sell", position_size, ok2)
              IN  Traded(Logged(opened, <<"sell_executed", 0>>))
       ELSE Traded(Trace)

\* position_change == -2
SellSignal ==
    /\ pc = "trade"
    /\ ~IsStale(data)
    /\ sig.position = -2
    /\ IF current_qty >= 0
       THEN \E ok1 \in BOOLEAN :
              LET closed == IF current_qty > 0
                            THEN place_order(Trace, "sell", current_qty, ok1)
                            ELSE Trace
              IN  Traded(Logged(closed, <<"sell_executed", 0>>))
       ELSE Traded(Trace)

\* any other position_change
HoldPosition ==
    /\ pc = "trade"
    /\ ~IsStale(data)
    /\ sig.position \notin {2, -2}
    /\ Traded(Logged(Trace, <<"no_signal", 0>>))

LogAccountStatus ==
    /\ pc = "account"
    /\ \E ok \in BOOLEAN :
         /\ calls' = Append(calls, Call("get_account", 0, 0, "", 0,
                                        IF ok THEN "ok" ELSE "raise"))
         /\ log' = Append(log, IF ok THEN <<"account", 0>> ELSE <<"account_error", 0>>)
    /\ pc' = "done"
    /\ UNCHANGED <<run, held, data, sig, current_qty>>

----------------------------------------------------------------------------
(* The brokerage between two invocations: the market orders the run had     *)
(* accepted are filled in full.                                             *)

RECURSIVE Filled(_, _, _)
Filled(h, cs, i) ==
    IF i > Len(cs) THEN h
    ELSE IF cs[i].op = "submit_order" /\ cs[i].res = "ok"
         THEN Filled(IF cs[i].side = "buy" THEN h + cs[i].qty ELSE h - cs[i].qty, cs, i + 1)
         ELSE Filled(h, cs, i + 1)

NextRun ==
    /\ pc = "done"
    /\ run < MaxRuns
    /\ run' = run + 1
    /\ held' = Filled(held, calls, 1)
    /\ pc' = "start"
    /\ calls' = <<>>
    /\ log' = <<>>
    /\ data' = None
    /\ sig' = NoSignal
    /\ current_qty' = 0

Init ==
    /\ run = 1
    /\ held \in (-MaxQty)..MaxQty
    /\ pc = "start"
    /\ calls = <<>>
    /\ log = <<>>
    /\ data = None
    /\ sig = NoSignal
    /\ current_qty = 0

Next ==
    \/ IsMarketOpen
    \/ FetchMinute
    \/ FetchDaily
    \/ FetchHistorical
    \/ CalculateSignals
    \/ GetCurrentPosition
    \/ SkipStale
    \/ BuySignal
    \/ SellSignal
    \/ HoldPosition
    \/ LogAccountStatus
    \/ NextRun

Spec == Init /\ [][Next]_vars

----------------------------------------------------------------------------
(* Vocabulary of the properties *)

IsOrder(c) == c.op = "submit_order"

\* the orders the run has submitted so far, accepted or not, as <<side, qty>>
Orders ==
    LET os == SelectSeq(calls, IsOrder)
    IN  [i \in 1..Len(os) |-> <<os[i].side, os[i].qty>>]

Made(op) == \E i \in 1..Len(calls) : calls[i].op = op

\* the trading branch of run_strategy has been executed in this run
TradeDone == pc \in {"account", "done"} /\ sig.some

Fresh == data.some /\ data.age <= 30

\* short mean > long mean at bar j of the fetched series, both defined
Above(j) ==
    /\ j >= 20
    /\ 20 * SumCloses(data.closes, j - 4, j) > 5 * SumCloses(data.closes, j - 19, j)

\* get_bars call i got a series the tier returns to the caller
TierSucceeded(i) ==
    IF calls[i].tier < 3 THEN calls[i].n >= 20 ELSE calls[i].n > 0

----------------------------------------------------------------------------
(* C1: when the last bar is more than 30 days old no order is submitted in *)
(* the run, whatever the signal and the position, and the "skipping        *)
(* trading" notice is logged; at exactly 30 days a crossover still trades. *)
C1_StaleDataNeverTrades ==
    /\ (data.some /\ data.age > 30) =>
          /\ ~Made("submit_order")
          /\ TradeDone => \E i \in 1..Len(log) : log[i][1] = "skipping_trading"
    /\ (TradeDone /\ data.age = 30) =>
          /\ \A i \in 1..Len(log) : log[i][1] # "skipping_trading"
          /\ (sig.position = 2 /\ current_qty <= 0) => Made("submit_order")
          /\ (sig.position = -2 /\ current_qty > 0) => Made("submit_order")

C1_Witness ==
    /\ pc = "done"
    /\ sig.some
    /\ data.age = 31
    /\ sig.position = 2
    /\ current_qty <= 0

(* C2: when the market-open check reports closed (the clock says closed,   *)
(* or the clock query raises) the run ends without any get_bars,           *)
(* list_positions or submit_order call.                                    *)
C2_ClosedMarketNoCalls ==
    (calls # <<>>) =>
        /\ calls[1].op = "get_clock"
        /\ calls[1].res # "open" =>
              /\ pc = "done"
              /\ Len(calls) = 1
              /\ ~Made("get_bars") /\ ~Made("list_positions") /\ ~Made("submit_order")

C2_Witness ==
    /\ pc = "done"
    /\ Len(calls) = 1
    /\ calls[1].res = "raise"

(* C3: a sell is submitted only on a -2 crossover with a position q > 0    *)
(* read from the account, for exactly q shares, at most once in a run; on  *)
(* a -2 crossover with q <= 0 no order is submitted; so a filled sell      *)
(* leaves the account exactly flat.                                        *)
C3_NoShorting ==
    /\ \A i \in 1..Len(calls) :
          (IsOrder(calls[i]) /\ calls[i].side = "sell") =>
              /\ sig.position = -2
              /\ current_qty > 0
              /\ calls[i].qty = current_qty
              /\ current_qty = held
              /\ calls[i].res = "ok" => Filled(held, calls, 1) = 0
              /\ \A j \in 1..Len(calls) :
                    (IsOrder(calls[j]) /\ calls[j].side = "sell") => j = i
    /\ (TradeDone /\ sig.position = -2 /\ (current_qty <= 0 \/ held <= 0)) =>
          ~Made("submit_order")
    /\ (\A i \in 1..Len(calls) : IsOrder(calls[i]) => calls[i].side = "sell") =>
          Filled(held, calls, 1) >= IF held < 0 THEN held ELSE 0

C3_Witness ==
    /\ pc = "done"
    /\ held > 1
    /\ \E i \in 1..Len(calls) :
          IsOrder(calls[i]) /\ calls[i].side = "sell" /\ calls[i].res = "ok"

(* C4: with a negative position read and a +2 crossover (market open, data *)
(* not stale) exactly two orders are submitted, in this order: a buy of    *)
(* abs(qty), then a buy of the position size 10; no sell.                  *)
C4_ShortToLong ==
    (TradeDone /\ Fresh /\ sig.position = 2 /\ current_qty < 0) =>
        Orders = << <<"buy", -current_qty>>, <<"buy", 10>> >>

C4_Witness ==
    /\ pc = "done"
    /\ Fresh
    /\ sig.position = 2
    /\ current_qty < -1
    /\ Len(Orders) = 2

(* C5: with a position of 0 and a +2 crossover (market open, data not      *)
(* stale) exactly one order is submitted in the run: a buy of the position *)
(* size 10, with no flattening order before it.                            *)
C5_FlatToLong ==
    (TradeDone /\ Fresh /\ sig.position = 2 /\ current_qty = 0) =>
        Orders = << <<"buy", 10>> >>

C5_Witness ==
    /\ pc = "done"
    /\ Fresh
    /\ sig.position = 2
    /\ current_qty = 0
    /\ held = 0
    /\ Len(Orders) = 1

(* C6: every non-None result of get_market_data, from whichever tier, has  *)
(* at least long_window (20) bars.                                         *)
C6_FetchedSeriesLongEnough ==
    data.some => Len(data.closes) >= 20

(* C7: the tiers are requested in the order minute, daily, older daily; a  *)
(* tier is requested only after every earlier tier returned an empty or    *)
(* too short series or raised, and is requested then; no get_bars call     *)
(* follows a tier that succeeded; when the last tier is empty or raises    *)
(* the result is None and the run ends with no position read and no order. *)
C7_TierOrder ==
    /\ \A i \in 1..Len(calls) :
          calls[i].op = "get_bars" =>
              /\ calls[i].tier = i - 1
              /\ i <= 4
              /\ calls[i].tier > 1 =>
                    /\ calls[i - 1].op = "get_bars"
                    /\ calls[i - 1].n < 20
              /\ TierSucceeded(i) =>
                    /\ data.some
                    /\ \A j \in (i + 1)..Len(calls) : calls[j].op # "get_bars"
              /\ (~TierSucceeded(i) /\ calls[i].tier < 3 /\ pc \notin {"fetch_daily", "fetch_historical"}) =>
                    /\ Len(calls) > i
                    /\ calls[i + 1].op = "get_bars"
              /\ (~TierSucceeded(i) /\ calls[i].tier = 3) =>
                    /\ ~data.some
                    /\ pc = "done"
                    /\ Len(calls) = i
    /\ (Made("list_positions") \/ Made("submit_order")) => data.some

C7_Witness ==
    /\ pc = "done"
    /\ Len(calls) = 4
    /\ calls[2].n = 0
    /\ calls[3].n = 19
    /\ calls[4].res = "raise"

(* C8: the delta calculate_signals returns is -2, 0 or +2; it is +2 only   *)
(* if at the previous bar the short mean was not above the long mean, both *)
(* means being defined there, and at the last bar it is above; -2 only for *)
(* the reverse move; 0 when the relation is the same at the last two bars. *)
C8_DeltaIsCrossover ==
    sig.some =>
        LET n == Len(data.closes) IN
        /\ sig.position \in {-2, 0, 2}
        /\ sig.position = 2 => (n - 1 >= 20 /\ ~Above(n - 1) /\ Above(n))
        /\ sig.position = -2 => (n - 1 >= 20 /\ Above(n - 1) /\ ~Above(n))
        /\ (n - 1 >= 20 /\ (Above(n - 1) <=> Above(n))) => sig.position = 0

(* C9: a failed order submission never aborts the run: after an order that *)
(* raised the run still reaches the account-status query, and in a short   *)
(* to long reversal the position-size buy is still submitted after a       *)
(* failed flattening buy.                                                  *)
C9_FailedOrderContinues ==
    \A i \in 1..Len(calls) :
        (IsOrder(calls[i]) /\ calls[i].res = "raise") =>
            /\ \E k \in 1..Len(log) : log[k] = <<"order_error", calls[i].qty>>
            /\ pc \in {"account", "done"}
            /\ pc = "done" => calls[Len(calls)].op = "get_account"
            /\ (current_qty < 0 /\ calls[i - 1].op = "list_positions") =>
                  /\ Len(calls) > i
                  /\ IsOrder(calls[i + 1])
                  /\ calls[i + 1].side = "buy"
                  /\ calls[i + 1].qty = 10

C9_Witness ==
    /\ pc = "done"
    /\ current_qty < 0
    /\ \E i \in 1..Len(calls) :
          /\ IsOrder(calls[i]) /\ calls[i].res = "raise"
          /\ calls[i - 1].op = "list_positions"
          /\ calls[i + 1].res = "ok"
    /\ calls[Len(calls)].op = "get_account"

(* C10: a buy is submitted (and accepted) in a run only if the account's actual position  *)
(* at the position read is <= 0, so the position never exceeds the         *)
(* position size 10; also in runs where the list_positions query raises.   *)
C10_NeverAddsToLong ==
    /\ \A i \in 1..Len(calls) :
          (IsOrder(calls[i]) /\ calls[i].side = "buy" /\ calls[i].res = "ok") => held <= 0
    /\ held <= 10
    /\ pc = "done" => Filled(held, calls, 1) <= 10

====
